---- MODULE Spec2Model ----
(***************************************************************************)
(* A state-machine model of src/api_solver.py (TurnstileAPIServer): the    *)
(* browser pool (an asyncio.Queue), the task store (self.results and       *)
(* results.json), the solver coroutine _solve_turnstile and the two HTTP   *)
(* handlers.  Scheduling is asyncio's: one coroutine runs at a time and    *)
(* gives up control only at an await, so one action is the code between    *)
(* two awaits.                                                             *)
(***************************************************************************)
EXTENDS Naturals, Sequences, FiniteSets, TLC

----------------------------------------------------------------------------
(* Bounds of the model *)

\* number of /turnstile submissions accepted in one run
MaxTasks == 2
\* largest pool size (--thread) the initial states draw from
MaxThreads == 2
\* largest elapsed time, in clock ticks, a solver observes
MaxElapsed == 1
\* first polling attempts that are taken one at a time; the attempts between
\* them and the last are taken as one run of unsuccessful attempts
MaxDetail == 2

(* Program constants *)

\* for _ in range(20)
MaxAttempts == 20

----------------------------------------------------------------------------
(* Python values.  A str is a sequence of one-character strings; None is    *)
(* the empty tuple and a present value v is <<v>>.                          *)

None == << >>
Some(v) == <<v>>
\* Python truthiness of an optional str: None and "" are falsy
Truthy(opt) == opt # None /\ opt[1] # << >>

RECURSIVE SplitAcc(_, _, _, _, _)
SplitAcc(s, sep, i, cur, acc) ==
    IF i > Len(s) THEN Append(acc, cur)
    ELSE IF s[i] = sep THEN SplitAcc(s, sep, i + 1, << >>, Append(acc, cur))
    ELSE SplitAcc(s, sep, i + 1, Append(cur, s[i]), acc)

\* str.split(sep) for a one-character separator
split(s, sep) == SplitAcc(s, sep, 1, << >>, << >>)

RECURSIVE join(_, _)
\* sep.join(parts)
join(sep, parts) ==
    IF Len(parts) = 0 THEN << >>
    ELSE IF Len(parts) = 1 THEN parts[1]
    ELSE parts[1] \o <<sep>> \o join(sep, Tail(parts))

\* sub in s
contains(s, sub) ==
    \E i \in 1..(Len(s) + 1) :
        /\ i + Len(sub) - 1 <= Len(s)
        /\ SubSeq(s, i, i + Len(sub) - 1) = sub

\* s.find(c), 1-based; 0 when c does not occur
find(s, c) ==
    IF \E i \in 1..Len(s) : s[i] = c
    THEN CHOOSE i \in 1..Len(s) : s[i] = c /\ \A j \in 1..(i - 1) : s[j] # c
    ELSE 0

\* s.rfind(c), 1-based; 0 when c does not occur
rfind(s, c) ==
    IF \E i \in 1..Len(s) : s[i] = c
    THEN CHOOSE i \in 1..Len(s) : s[i] = c /\ \A j \in (i + 1)..Len(s) : s[j] # c
    ELSE 0

\* the literal text of an f-string or a constant, one character per element
Colon == ":"
SchemeSep == <<":", "/", "/">>
Http == <<"h", "t", "t", "p">>

----------------------------------------------------------------------------
(* Proxy resolution and parsing, _solve_turnstile lines 172-242 *)

\* used_proxy: the API parameter, else a line of proxies.txt when proxy
\* support is on; `choice` is what random.choice returns
ResolveProxy(proxy, support, lines, choice) ==
    IF Truthy(proxy) THEN proxy
    ELSE IF support /\ lines # None /\ lines[1] # << >> THEN Some(choice)
    ELSE None

\* the lines random.choice may return: any line of the file
ProxyChoices(proxy, support, lines) ==
    IF ~Truthy(proxy) /\ support /\ lines # None /\ lines[1] # << >>
    THEN {lines[1][i] : i \in 1..Len(lines[1])}
    ELSE {<< >>}

\* lines 219-240: host:port:username:password
ParseUserPass(parts) ==
    LET remaining == join(Colon, SubSeq(parts, 3, Len(parts)))
        last_colon_idx == rfind(remaining, Colon)
    IN  IF last_colon_idx # 0
        THEN [server |-> Http \o SchemeSep \o parts[1] \o <<Colon>> \o parts[2],
              username |-> SubSeq(remaining, 1, last_colon_idx - 1),
              password |-> SubSeq(remaining, last_colon_idx + 1, Len(remaining))]
        ELSE [server |-> Http \o SchemeSep \o parts[1] \o <<Colon>> \o parts[2],
              username |-> remaining,
              password |-> << >>]

\* lines 203-242: [raised |-> an exception escapes, proxy |-> None or
\* Some(context_options["proxy"])].  The "://" branch splits the API
\* parameter `proxy`, not used_proxy, and unpacks exactly five fields.
ParseProxy(proxy, used_proxy) ==
    IF ~Truthy(used_proxy) THEN [raised |-> FALSE, proxy |-> None]
    ELSE IF contains(used_proxy[1], SchemeSep)
    THEN IF proxy = None
         THEN [raised |-> TRUE, proxy |-> None]
         ELSE LET parts == split(proxy[1], Colon)
              IN  IF Len(parts) # 5
                  THEN [raised |-> TRUE, proxy |-> None]
                  ELSE [raised |-> FALSE,
                        proxy |-> Some([server |-> parts[1] \o SchemeSep \o parts[2]
                                                    \o <<Colon>> \o parts[3],
                                        username |-> parts[4],
                                        password |-> parts[5]])]
    ELSE LET parts == split(used_proxy[1], Colon)
         IN  IF Len(parts) = 2
             THEN [raised |-> FALSE,
                   proxy |-> Some([server |-> Http \o SchemeSep \o parts[1]
                                               \o <<Colon>> \o parts[2]])]
             ELSE IF Len(parts) = 3
             THEN [raised |-> FALSE,
                   proxy |-> Some([server |-> parts[3] \o SchemeSep \o parts[1]
                                               \o <<Colon>> \o parts[2]])]
             ELSE IF Len(parts) >= 4
             THEN [raised |-> FALSE, proxy |-> Some(ParseUserPass(parts))]
             ELSE [raised |-> FALSE, proxy |-> None]

----------------------------------------------------------------------------
(* The task store: self.results and results.json *)

\* the text of the two sentinels, one word per element
CAPTCHA_NOT_READY == <<"CAPTCHA", "_", "NOT", "_", "READY">>
CAPTCHA_FAIL == <<"CAPTCHA", "_", "FAIL">>

\* a stored result is a str or a dict {"value": ..., "elapsed_time": ...}
PyStr(s) == [type |-> "str", s |-> s]
PyDict(value, elapsed_time) ==
    [type |-> "dict", value |-> value, elapsed_time |-> elapsed_time]

NotReady == PyStr(CAPTCHA_NOT_READY)
Failed(elapsed_time) == PyDict(CAPTCHA_FAIL, elapsed_time)

IsPending(r) == r = NotReady
IsFailed(r) == r.type = "dict" /\ r.value = CAPTCHA_FAIL
IsSolved(r) == r.type = "dict" /\ r.value # CAPTCHA_FAIL
IsTerminal(r) == IsFailed(r) \/ IsSolved(r)

\* Python's `x in result`: a substring test on a str, a key test on a dict
PyIn(x, result) ==
    IF result.type = "str" THEN contains(result.s, x)
    ELSE x \in {<<"value">>, <<"elapsed_time">>}

EmptyDict == [k \in {} |-> NotReady]

\* d[k] = v
DictSet(d, k, v) == [j \in DOMAIN d \cup {k} |-> IF j = k THEN v ELSE d[j]]

\* json.dump / json.load of one stored value
JsonEncode(r) ==
    IF r.type = "str" THEN [json |-> "string", text |-> r.s]
    ELSE [json |-> "object", members |-> <<r.value, r.elapsed_time>>]

JsonDecode(j) ==
    IF j.json = "string" THEN PyStr(j.text)
    ELSE PyDict(j.members[1], j.members[2])

\* results.json after json.dump(self.results, f)
JsonDump(d) == [valid |-> TRUE, text |-> [k \in DOMAIN d |-> JsonEncode(d[k])]]

\* results.json missing, or holding {}
NoFile == [valid |-> TRUE, text |-> [k \in {} |-> JsonEncode(NotReady)]]

\* results.json cut short by a write that failed after the file was opened
CorruptFile == [valid |-> FALSE, text |-> [k \in {} |-> JsonEncode(NotReady)]]

\* lines 108-116: a JSONDecodeError or IOError gives {}
LoadResults(f) ==
    IF f.valid THEN [k \in DOMAIN f.text |-> JsonDecode(f.text[k])] ELSE EmptyDict

\* lines 118-124: the file after _save_results; an IOError is caught, and
\* leaves the old file (open failed) or a truncated one (the write failed)
SaveResults(d, f, ok) == IF ok THEN {JsonDump(d)} ELSE {f, CorruptFile}

\* lines 374-383: the response of /result?id=...
GetResultResponse(d, task_id) ==
    IF task_id = None \/ task_id[1] \notin DOMAIN d
    THEN [body |-> PyStr(<<"error">>), status |-> 400]
    ELSE [body |-> d[task_id[1]],
          status |-> IF PyIn(CAPTCHA_FAIL, d[task_id[1]]) THEN 422 ELSE 200]

\* a gate that tests whether any task has a result
FallbackGate_any(d, task_id) == task_id \in DOMAIN d /\ \A k \in DOMAIN d : d[k] = NotReady

\* line 303: self.results.get(task_id) == "CAPTCHA_NOT_READY"
FallbackGate(d, task_id) == task_id \in DOMAIN d /\ d[task_id] = NotReady

----------------------------------------------------------------------------
(* State *)

VARIABLES
    phase,          \* "startup", "serving", or "aborted" when _startup raised
    thread_count,   \* self.thread_count
    proxy_support,  \* self.proxy_support
    proxies_txt,    \* None when proxies.txt is missing, else Some(its lines)
    results,        \* self.results
    file,           \* results.json
    pool_queue,     \* self.browser_pool._queue: the slot indices available
    pool_getters,   \* self.browser_pool._getters: the solvers suspended in get()
    ready,          \* the event loop's ready queue: solvers to resume, in order
    issued,         \* number of task ids issued so far
    pc,             \* where each solver invocation stands
    proxy,          \* the proxy argument of each invocation
    index,          \* the slot index each invocation got from browser_pool.get()
    options,        \* context_options["proxy"] passed to new_context
    elapsed,        \* time.time() - start_time, in ticks
    attempt,        \* the loop variable _ of the polling loop
    gets,           \* times each invocation got a slot from the pool
    puts,           \* times each invocation put its slot back
    writes,         \* times each invocation assigned self.results[task_id]
    waits,          \* times each invocation suspended in browser_pool.get()
    ahead,          \* ready-queue entries that run before each solver's next step
    waited,         \* solvers that had to wait and hold no slot yet, oldest first
    barged,         \* a solver took a slot without waiting while others waited
    io_error,       \* some write of results.json has raised IOError
    load_ticks,     \* ticks from start_time to the first polling attempt
    poll_ticks      \* ticks from the first polling attempt on

vars == <<phase, thread_count, proxy_support, proxies_txt, results, file,
          pool_queue, pool_getters, ready, issued, pc, proxy, index, options,
          elapsed, attempt, gets, puts, writes, waits, ahead, waited,
          barged, io_error, load_ticks, poll_ticks>>

config == <<thread_count, proxy_support, proxies_txt>>
pool == <<pool_queue, pool_getters, ready, waited, barged>>
store == <<results, file, io_error>>
locals == <<proxy, index, options, elapsed, attempt>>
ghost == <<gets, puts, writes, waits>>
clock == <<load_ticks, poll_ticks>>

\* task ids: uuid4 values, named by their order of issue
TaskIds == 1..(MaxTasks + 2)

\* the proxy strings a submission carries
P_HostPort == <<"h", ":", "8">>
P_Url == <<"s", ":", "/", "/", "h", ":", "8">>
P_Field == <<"h">>
ProxyArgs == {None, Some(P_HostPort), Some(P_Url), Some(P_Field)}

\* a "://" string of five fields
P_UrlAuth == <<"s", ":", "/", "/", "h", ":", "8", ":", "u", ":", "p">>

\* the contents of proxies.txt
ProxyFiles == {None, Some(<<P_HostPort, P_UrlAuth>>)}

\* what random.choice may return for some proxies.txt; << >> when it is not called
FileLines == {<< >>, P_HostPort, P_UrlAuth}

\* the tokens the widget hands out
Tokens == {<<"tok">>}

\* pc values of an invocation that is between its get() and its end
InSession == {"new_context", "new_page", "load", "poll", "fallback", "close"}
\* pc values of an invocation an exception has left, by the line that raised
Raised == {"raised_parse", "raised_context", "raised_page", "raised_close"}
\* pc values of an invocation that has ended
Ended == {"done"} \cup Raised

RECURSIVE Remove(_, _)
\* the sequence s without the element x
Remove(s, x) ==
    IF s = << >> THEN << >>
    ELSE IF Head(s) = x THEN Remove(Tail(s), x)
    ELSE <<Head(s)>> \o Remove(Tail(s), x)

InSeq(s, x) == \E i \in 1..Len(s) : s[i] = x

\* the ticks a page operation may take, given the ticks counted so far
Ticks(e) == {d \in {0, 1} : e + d <= MaxElapsed}

\* the state after __init__, the configuration drawn from the given sets
InitWith(threads, supports, files) ==
    /\ phase = "startup"
    /\ thread_count \in threads
    /\ proxy_support \in supports
    /\ proxies_txt \in files
    /\ file = NoFile
    /\ results = LoadResults(NoFile)
    /\ pool_queue = << >>
    /\ pool_getters = << >>
    /\ ready = << >>
    /\ issued = 0
    /\ pc = [t \in TaskIds |-> "none"]
    /\ proxy = [t \in TaskIds |-> None]
    /\ index = [t \in TaskIds |-> 0]
    /\ options = [t \in TaskIds |-> None]
    /\ elapsed = [t \in TaskIds |-> 0]
    /\ attempt = [t \in TaskIds |-> 0]
    /\ gets = [t \in TaskIds |-> 0]
    /\ puts = [t \in TaskIds |-> 0]
    /\ writes = [t \in TaskIds |-> 0]
    /\ waits = [t \in TaskIds |-> 0]
    /\ ahead = [t \in TaskIds |-> 0]
    /\ waited = << >>
    /\ barged = FALSE
    /\ io_error = FALSE
    /\ load_ticks = [t \in TaskIds |-> 0]
    /\ poll_ticks = [t \in TaskIds |-> 0]

Init == InitWith(1..MaxThreads, {FALSE}, {None})

----------------------------------------------------------------------------
(* Startup, lines 133-167 *)

\* _initialize_browser: every launch succeeds and the pool holds 1..thread_count
initialize_browser ==
    /\ phase = "startup"
    /\ pool_queue' = [i \in 1..thread_count |-> i]
    /\ phase' = "serving"
    /\ UNCHANGED <<config, store, pool_getters, ready, waited, barged, issued,
                   pc, locals, ghost>>
    /\ UNCHANGED ahead
    /\ UNCHANGED clock

\* _startup that logs the exception of launch number `failing` and goes on
initialize_browser_raise_logged(failing) ==
    /\ phase = "startup"
    /\ failing \in 1..thread_count
    /\ pool_queue' = [i \in 1..(failing - 1) |-> i]
    /\ phase' = "serving"
    /\ UNCHANGED <<config, store, pool_getters, ready, waited, barged, issued,
                   pc, locals, ghost, ahead>>
    /\ UNCHANGED clock

\* _initialize_browser: launch number `failing` raises; _startup re-raises and
\* the server never starts serving
initialize_browser_raise(failing) ==
    /\ phase = "startup"
    /\ failing \in 1..thread_count
    /\ pool_queue' = [i \in 1..(failing - 1) |-> i]
    /\ phase' = "aborted"
    /\ UNCHANGED <<config, store, pool_getters, ready, waited, barged, issued,
                   pc, locals, ghost>>
    /\ UNCHANGED ahead
    /\ UNCHANGED clock

----------------------------------------------------------------------------
(* The HTTP handlers, lines 339-383 *)

\* process_turnstile that answers only once a slot is in the pool
process_turnstile_waits(limit, proxy_arg) ==
    /\ phase = "serving"
    /\ issued < limit
    /\ pool_queue # << >>
    /\ LET task_id == issued + 1
       IN  /\ issued' = task_id
           /\ results' = [j \in DOMAIN results \cup {task_id} |->
                            IF j = task_id THEN [type |-> "str", s |-> CAPTCHA_NOT_READY]
                            ELSE results[j]]
           /\ pc' = [pc EXCEPT ![task_id] = "scheduled"]
           /\ proxy' = [proxy EXCEPT ![task_id] = proxy_arg]
           /\ ready' = Append(ready, task_id)
    /\ UNCHANGED <<phase, config, file, io_error, pool_queue, pool_getters,
                   waited, barged, index, options, elapsed, attempt, ghost, ahead>>
    /\ UNCHANGED clock

\* process_turnstile with url and sitekey present: a fresh task id, the
\* pending sentinel, and the solver scheduled with create_task; returns 202
process_turnstile(limit, proxy_arg) ==
    /\ phase = "serving"
    /\ issued < limit
    /\ LET task_id == issued + 1
       IN  /\ issued' = task_id
           /\ results' = DictSet(results, task_id, NotReady)
           /\ pc' = [pc EXCEPT ![task_id] = "scheduled"]
           /\ proxy' = [proxy EXCEPT ![task_id] = proxy_arg]
           /\ ready' = Append(ready, task_id)
    /\ UNCHANGED <<phase, config, file, io_error, pool_queue, pool_getters,
                   waited, barged, index, options, elapsed, attempt, ghost>>
    /\ UNCHANGED ahead
    /\ UNCHANGED clock

\* process_turnstile without url or sitekey: 400, nothing stored
process_turnstile_invalid ==
    /\ phase = "serving"
    /\ UNCHANGED vars

\* get_result: reads self.results, writes nothing
get_result(task_id) ==
    /\ phase = "serving"
    /\ GetResultResponse(results, task_id).status \in {200, 400, 422}
    /\ UNCHANGED vars

----------------------------------------------------------------------------
(* asyncio.Queue, as browser_pool uses it (lines 100, 174, 337) *)

\* get_nowait that leaves the item in the queue
get_nowait_peek(q) == [item |-> Head(q), rest |-> q]

\* get_nowait: the item returned (popleft) and the queue left
get_nowait(q) == [item |-> Head(q), rest |-> Tail(q)]

\* put_nowait: the queue after _put(item)
put_nowait(q, item) == Append(q, item)

\* _wakeup_next that resolves the newest getter
wakeup_next_newest(getters) ==
    [woken |-> getters[Len(getters)], rest |-> SubSeq(getters, 1, Len(getters) - 1)]

\* _wakeup_next: the getter whose future is resolved (popleft; no future is
\* ever cancelled here), and the getters left
wakeup_next(getters) == [woken |-> Head(getters), rest |-> Tail(getters)]

\* `while self.empty()` in get()
empty(q) == q = << >>

----------------------------------------------------------------------------
(* _solve_turnstile, lines 170-337 *)

\* the local variables of invocation t become p, i, o, e, a
SetLocals(t, p, i, o, e, a) ==
    /\ proxy' = [proxy EXCEPT ![t] = p]
    /\ index' = [index EXCEPT ![t] = i]
    /\ options' = [options EXCEPT ![t] = o]
    /\ elapsed' = [elapsed EXCEPT ![t] = e]
    /\ attempt' = [attempt EXCEPT ![t] = a]

\* the time invocation t has spent loading the page becomes l, the time it
\* has spent in the polling loop p
Clock(t, l, p) ==
    /\ load_ticks' = [load_ticks EXCEPT ![t] = l]
    /\ poll_ticks' = [poll_ticks EXCEPT ![t] = p]

\* the invocation ends and its local variables are gone
DropLocals(t) == SetLocals(t, None, 0, None, 0, 0)

\* lines 318, 323, 329: the failure stored; _save_results is not called
StoreFailed(t, e) ==
    /\ results' = DictSet(results, t, Failed(e))
    /\ writes' = [writes EXCEPT ![t] = @ + 1]
    /\ UNCHANGED <<file, io_error>>

\* a store whose failed write of results.json undoes the assignment
StoreAndSave_rollback(t, r, save_ok) ==
    /\ results' = IF save_ok THEN DictSet(results, t, r) ELSE results
    /\ writes' = [writes EXCEPT ![t] = @ + 1]
    /\ file' \in SaveResults(results', file, save_ok)
    /\ io_error' = (io_error \/ ~save_ok)

\* a store that sets every entry of the mapping to the result
StoreAndSave_every(t, r, save_ok) ==
    /\ results' = [j \in DOMAIN results |-> r]
    /\ writes' = [writes EXCEPT ![t] = @ + 1]
    /\ file' \in SaveResults(results', file, save_ok)
    /\ io_error' = (io_error \/ ~save_ok)

\* lines 296-297 and 314-315: the result stored, then _save_results
StoreAndSave(t, r, save_ok) ==
    /\ results' = DictSet(results, t, r)
    /\ writes' = [writes EXCEPT ![t] = @ + 1]
    /\ file' \in SaveResults(results', file, save_ok)
    /\ io_error' = (io_error \/ ~save_ok)

\* The event loop runs the ready queue in order, and the coroutine a page
\* operation resumes joins it at the end: a solver's step after an await
\* on the page runs after the entries that were in the ready queue when
\* the solver began to wait.  `more` says the solver awaits the page again.

\* a step resumed by the page: no entry that was ready before is left
IoStep(t, more) ==
    /\ ahead[t] = 0
    /\ ahead' = [ahead EXCEPT ![t] = IF more THEN Len(ready') ELSE 0]

\* a step of the ready queue's first entry: one entry fewer is ahead
EntryStep(t, more) ==
    ahead' = [u \in TaskIds |->
                IF u = t THEN (IF more THEN Len(ready') ELSE 0)
                ELSE IF ahead[u] > 0 THEN ahead[u] - 1 ELSE 0]

\* the step of the ready queue's first solver
Runs(t) ==
    /\ phase = "serving"
    /\ ready # << >>
    /\ Head(ready) = t
    /\ pc[t] \in {"scheduled", "woken"}

\* line 174, queue empty: get() appends a future to _getters and suspends
solve_wait(t) ==
    /\ Runs(t)
    /\ empty(pool_queue)
    /\ pool_getters' = Append(pool_getters, t)
    /\ ready' = Tail(ready)
    /\ pc' = [pc EXCEPT ![t] = "waiting"]
    /\ waited' = IF InSeq(waited, t) THEN waited ELSE Append(waited, t)
    /\ waits' = [waits EXCEPT ![t] = @ + 1]
    /\ UNCHANGED <<phase, config, store, pool_queue, barged, issued, locals,
                   gets, puts, writes>>
    /\ EntryStep(t, FALSE)
    /\ UNCHANGED clock

\* line 174, queue not empty: what get() returning a slot does to the pool
Acquire(t) ==
    /\ Runs(t)
    /\ ~empty(pool_queue)
    /\ pool_queue' = get_nowait(pool_queue).rest
    /\ ready' = Tail(ready)
    /\ waited' = Remove(waited, t)
    /\ barged' = (barged \/ (pc[t] = "scheduled" /\ waited # << >>))
    /\ gets' = [gets EXCEPT ![t] = @ + 1]
    /\ UNCHANGED <<phase, config, store, pool_getters, issued, puts, writes,
                   waits>>

\* lines 174-249: a slot, the proxy resolved and parsed, new_context called
solve_acquire(t, choice) ==
    /\ Acquire(t)
    /\ choice \in ProxyChoices(proxy[t], proxy_support, proxies_txt)
    /\ LET used_proxy == ResolveProxy(proxy[t], proxy_support, proxies_txt, choice)
           parsed == ParseProxy(proxy[t], used_proxy)
       IN  /\ ~parsed.raised
           /\ SetLocals(t, None, get_nowait(pool_queue).item, parsed.proxy, 0, 0)
           /\ pc' = [pc EXCEPT ![t] = "new_context"]
    /\ EntryStep(t, TRUE)
    /\ UNCHANGED clock

\* lines 174-207: a slot, and the proxy parsing raises (AttributeError on
\* None.split, ValueError on the unpacking); nothing catches it
solve_acquire_raise(t, choice) ==
    /\ Acquire(t)
    /\ choice \in ProxyChoices(proxy[t], proxy_support, proxies_txt)
    /\ LET used_proxy == ResolveProxy(proxy[t], proxy_support, proxies_txt, choice)
           parsed == ParseProxy(proxy[t], used_proxy)
       IN  /\ parsed.raised
           /\ DropLocals(t)
           /\ pc' = [pc EXCEPT ![t] = "raised_parse"]
    /\ EntryStep(t, FALSE)
    /\ UNCHANGED clock

\* line 249: new_context returns
new_context(t) ==
    /\ pc[t] = "new_context"
    /\ pc' = [pc EXCEPT ![t] = "new_page"]
    /\ SetLocals(t, None, index[t], None, 0, 0)
    /\ UNCHANGED <<phase, config, store, pool, issued, ghost>>
    /\ IoStep(t, TRUE)
    /\ UNCHANGED clock

\* line 249: new_context raises, outside the try
new_context_raise(t) ==
    /\ pc[t] = "new_context"
    /\ pc' = [pc EXCEPT ![t] = "raised_context"]
    /\ DropLocals(t)
    /\ UNCHANGED <<phase, config, store, pool, issued, ghost>>
    /\ IoStep(t, FALSE)
    /\ UNCHANGED clock

\* lines 251-253: new_page returns, start_time = time.time()
new_page(t) ==
    /\ pc[t] = "new_page"
    /\ pc' = [pc EXCEPT ![t] = "load"]
    /\ SetLocals(t, None, index[t], None, 0, 0)
    /\ UNCHANGED <<phase, config, store, pool, issued, ghost>>
    /\ IoStep(t, TRUE)
    /\ UNCHANGED clock

\* line 251: new_page raises, outside the try
new_page_raise(t) ==
    /\ pc[t] = "new_page"
    /\ pc' = [pc EXCEPT ![t] = "raised_page"]
    /\ DropLocals(t)
    /\ UNCHANGED <<phase, config, store, pool, issued, ghost>>
    /\ IoStep(t, FALSE)
    /\ UNCHANGED clock

\* a page load after which start_time is taken anew
page_load_restart(t, d) ==
    /\ pc[t] = "load"
    /\ d \in Ticks(elapsed[t])
    /\ SetLocals(t, None, index[t], None, 0, 0)
    /\ pc' = [pc EXCEPT ![t] = "poll"]
    /\ UNCHANGED <<phase, config, store, pool, issued, ghost>>
    /\ IoStep(t, TRUE)
    /\ Clock(t, elapsed[t] + d, 0)

\* lines 255-282: route, goto, the two waits and the resize return
page_load(t, d) ==
    /\ pc[t] = "load"
    /\ d \in Ticks(elapsed[t])
    /\ SetLocals(t, None, index[t], None, elapsed[t] + d, 0)
    /\ pc' = [pc EXCEPT ![t] = "poll"]
    /\ UNCHANGED <<phase, config, store, pool, issued, ghost>>
    /\ IoStep(t, TRUE)
    /\ Clock(t, elapsed[t] + d, 0)

\* lines 264-277 raise; lines 327-336: the outer except stores the failure
\* (no _save_results) and the finally clause calls context.close()
page_load_raise(t, d) ==
    /\ pc[t] = "load"
    /\ d \in Ticks(elapsed[t])
    /\ StoreFailed(t, elapsed[t] + d)
    /\ SetLocals(t, None, index[t], None, 0, 0)
    /\ pc' = [pc EXCEPT ![t] = "close"]
    /\ UNCHANGED <<phase, config, pool, issued, gets, puts, waits>>
    /\ IoStep(t, TRUE)
    /\ UNCHANGED clock

\* a fallback that runs whatever the loop stored
AfterLoop_always(d, t) == "fallback"

\* where the solver stands once the polling loop is left: line 303 tests
\* the stored value; when it is still the sentinel, page.evaluate is called,
\* otherwise the finally clause calls context.close()
AfterLoop(d, t) == IF FallbackGate(d, t) THEN "fallback" ELSE "close"

\* the attempts taken one at a time: the first MaxDetail and the last
InDetail(a) == a < MaxDetail \/ a = MaxAttempts - 1

\* an attempt whose exception reaches the outer except: the failure is
\* stored and the loop is left
poll_attempt_aborts(t, outcome, d) ==
    /\ pc[t] = "poll"
    /\ attempt[t] < MaxAttempts
    /\ InDetail(attempt[t])
    /\ outcome \in {"timeout", "empty", "click_raise"}
    /\ d \in Ticks(elapsed[t])
    /\ IF outcome = "empty"
       THEN /\ SetLocals(t, None, index[t], None, elapsed[t] + d, attempt[t] + 1)
            /\ pc' = [pc EXCEPT ![t] =
                        IF attempt'[t] = MaxAttempts THEN AfterLoop(results, t) ELSE "poll"]
            /\ UNCHANGED <<store, writes>>
       ELSE /\ StoreFailed(t, elapsed[t] + d)
            /\ SetLocals(t, None, index[t], None, 0, 0)
            /\ pc' = [pc EXCEPT ![t] = "close"]
    /\ UNCHANGED <<phase, config, pool, issued, gets, puts, waits>>
    /\ IoStep(t, TRUE)
    /\ Clock(t, IF pc'[t] = "poll" THEN load_ticks[t] ELSE 0,
                IF pc'[t] = "poll" THEN poll_ticks[t] + d ELSE 0)

\* lines 283-290, 299-300: one attempt that finds no token: the read times
\* out, or the field is empty and the click returns or raises; the bare
\* except swallows either exception
poll_attempt(t, outcome, d) ==
    /\ pc[t] = "poll"
    /\ attempt[t] < MaxAttempts
    /\ InDetail(attempt[t])
    /\ outcome \in {"timeout", "empty", "click_raise"}
    /\ d \in Ticks(elapsed[t])
    /\ SetLocals(t, None, index[t], None, elapsed[t] + d, attempt[t] + 1)
    /\ pc' = [pc EXCEPT ![t] =
                IF attempt'[t] = MaxAttempts THEN AfterLoop(results, t) ELSE "poll"]
    /\ UNCHANGED <<phase, config, store, pool, issued, ghost>>
    /\ IoStep(t, TRUE)
    /\ Clock(t, IF pc'[t] = "poll" THEN load_ticks[t] ELSE 0,
                IF pc'[t] = "poll" THEN poll_ticks[t] + d ELSE 0)

\* lines 283-290, 299-300: the attempts from MaxDetail up to the last one,
\* taken as one run of attempts that find no token
poll_rest(t, d) ==
    /\ pc[t] = "poll"
    /\ ~InDetail(attempt[t])
    /\ d \in Ticks(elapsed[t])
    /\ SetLocals(t, None, index[t], None, elapsed[t] + d, MaxAttempts - 1)
    /\ pc' = [pc EXCEPT ![t] = "poll"]
    /\ UNCHANGED <<phase, config, store, pool, issued, ghost>>
    /\ IoStep(t, TRUE)
    /\ Clock(t, load_ticks[t], poll_ticks[t] + d)

\* lines 291-298: the read returns a token: stored, saved, break
poll_solved(t, token, d, save_ok) ==
    /\ pc[t] = "poll"
    /\ attempt[t] < MaxAttempts
    /\ InDetail(attempt[t])
    /\ token \in Tokens
    /\ d \in Ticks(elapsed[t])
    /\ StoreAndSave(t, PyDict(token, elapsed[t] + d), save_ok)
    /\ SetLocals(t, None, index[t], None, 0, 0)
    /\ pc' = [pc EXCEPT ![t] = AfterLoop(results', t)]
    /\ UNCHANGED <<phase, config, pool, issued, gets, puts, waits>>
    /\ IoStep(t, TRUE)
    /\ Clock(t, load_ticks[t], poll_ticks[t] + d)

\* lines 308-315: window.turnstileToken is a non-empty token: stored, saved
fallback_solved(t, token, d, save_ok) ==
    /\ pc[t] = "fallback"
    /\ token \in Tokens
    /\ d \in Ticks(elapsed[t])
    /\ StoreAndSave(t, PyDict(token, elapsed[t] + d), save_ok)
    /\ SetLocals(t, None, index[t], None, 0, 0)
    /\ pc' = [pc EXCEPT ![t] = "close"]
    /\ UNCHANGED <<phase, config, pool, issued, gets, puts, waits>>
    /\ IoStep(t, TRUE)
    /\ UNCHANGED clock

\* lines 316-325: window.turnstileToken is null or "", or page.evaluate
\* raises: the failure is stored and _save_results is not called
fallback_failed(t, outcome, d) ==
    /\ pc[t] = "fallback"
    /\ outcome \in {"null", "raise"}
    /\ d \in Ticks(elapsed[t])
    /\ StoreFailed(t, elapsed[t] + d)
    /\ SetLocals(t, None, index[t], None, 0, 0)
    /\ pc' = [pc EXCEPT ![t] = "close"]
    /\ UNCHANGED <<phase, config, pool, issued, gets, puts, waits>>
    /\ IoStep(t, TRUE)
    /\ UNCHANGED clock

\* lines 336-337: context.close() returns and the slot is put back;
\* put_nowait wakes the first suspended getter
close(t) ==
    /\ pc[t] = "close"
    /\ pool_queue' = put_nowait(pool_queue, index[t])
    /\ puts' = [puts EXCEPT ![t] = @ + 1]
    /\ DropLocals(t)
    /\ IF pool_getters = << >>
       THEN /\ pc' = [pc EXCEPT ![t] = "done"]
            /\ UNCHANGED <<pool_getters, ready>>
       ELSE /\ pc' = [pc EXCEPT ![t] = "done",
                              ![wakeup_next(pool_getters).woken] = "woken"]
            /\ pool_getters' = wakeup_next(pool_getters).rest
            /\ ready' = Append(ready, wakeup_next(pool_getters).woken)
    /\ UNCHANGED <<phase, config, store, waited, barged, issued, gets, writes,
                   waits>>
    /\ IoStep(t, FALSE)
    /\ Clock(t, 0, 0)

\* line 336: context.close() raises inside the finally clause: line 337 is
\* not reached
close_raise(t) ==
    /\ pc[t] = "close"
    /\ pc' = [pc EXCEPT ![t] = "raised_close"]
    /\ DropLocals(t)
    /\ UNCHANGED <<phase, config, store, pool, issued, ghost>>
    /\ IoStep(t, FALSE)
    /\ Clock(t, 0, 0)

----------------------------------------------------------------------------
(* Specifications *)

Submit(limit) ==
    \/ \E proxy_arg \in ProxyArgs : process_turnstile(limit, proxy_arg)
    \/ process_turnstile_invalid

Poll == \E task_id \in {None} \cup {Some(t) : t \in TaskIds} : get_result(task_id)

Startup ==
    \/ initialize_browser
    \/ \E failing \in 1..MaxThreads : initialize_browser_raise(failing)

Solver(t) ==
    \/ solve_wait(t)
    \/ \E choice \in FileLines : solve_acquire(t, choice)
    \/ \E choice \in FileLines : solve_acquire_raise(t, choice)
    \/ new_context(t)
    \/ new_context_raise(t)
    \/ new_page(t)
    \/ new_page_raise(t)
    \/ \E d \in {0, 1} : page_load(t, d)
    \/ \E d \in {0, 1} : page_load_raise(t, d)
    \/ \E d \in {0, 1}, o \in {"timeout", "empty", "click_raise"} : poll_attempt(t, o, d)
    \/ \E d \in {0, 1} : poll_rest(t, d)
    \/ \E d \in {0, 1}, token \in Tokens, ok \in BOOLEAN : poll_solved(t, token, d, ok)
    \/ \E d \in {0, 1}, token \in Tokens, ok \in BOOLEAN : fallback_solved(t, token, d, ok)
    \/ \E d \in {0, 1}, o \in {"null", "raise"} : fallback_failed(t, o, d)
    \/ close(t)
    \/ close_raise(t)

Next ==
    \/ Startup
    \/ Submit(MaxTasks)
    \/ Poll
    \/ \E t \in TaskIds : Solver(t)

Spec == Init /\ [][Next]_vars

\* one browser and two submissions more, so that two solvers can wait while
\* a third holds the slot and a fourth arrives
PoolInit == InitWith({1}, {FALSE}, {None})

PoolNext ==
    \/ Startup
    \/ Submit(MaxTasks + 2)
    \/ Poll
    \/ \E t \in TaskIds : Solver(t)

PoolSpec == PoolInit /\ [][PoolNext]_vars

\* the event loop runs every ready coroutine and every page operation ends
\* (it returns or raises): each solver's next step is eventually taken
FairSpec ==
    /\ Init
    /\ [][Next]_vars
    /\ WF_vars(Startup)
    /\ \A t \in TaskIds : WF_vars(Solver(t))

----------------------------------------------------------------------------
(* The pool's slots *)

\* the invocations that hold a slot: between get() returning and their end
Holders == {t \in TaskIds : pc[t] \in InSession}

\* the slot indices in the available queue
Available == {pool_queue[i] : i \in 1..Len(pool_queue)}

\* C1: every invocation that got a slot from browser_pool.get() and has
\* ended has put that slot back exactly once, whatever step failed.
C1_SlotPutBackOnce ==
    \A t \in TaskIds : (pc[t] \in Ended /\ gets[t] > 0) => puts[t] = 1

\* C2: once the pool is initialized with N sessions, at most N slots are
\* checked out, and the slots in the queue plus the slots held by running
\* solvers are N.
C2_SlotsConserved ==
    phase = "serving" =>
        /\ Cardinality(Holders) <= thread_count
        /\ Len(pool_queue) + Cardinality(Holders) = thread_count

\* C3: a task whose solver has been scheduled eventually has a stored result
\* other than the pending sentinel.
C3_EveryTaskCompletes ==
    \A t \in TaskIds :
        (pc[t] = "scheduled") ~> (t \in DOMAIN results /\ ~IsPending(results[t]))

\* C4: polling a task whose stored result is {value: "CAPTCHA_FAIL",
\* elapsed_time} returns status 422.
C4_FailedPolls422 ==
    \A t \in DOMAIN results :
        IsFailed(results[t]) => GetResultResponse(results, Some(t)).status = 422

\* C5: the solver of every task mutates the task's record exactly once,
\* from the pending sentinel to Solved or Failed: no invocation writes
\* twice, and an invocation that has ended has written once and left a
\* terminal result.
C5_MutatedExactlyOnce ==
    \A t \in TaskIds :
        /\ writes[t] <= 1
        /\ pc[t] \in Ended => (writes[t] = 1 /\ IsTerminal(results[t]))

\* C6: while no write of results.json has failed, every completed task's
\* result is in the file, and loading the file gives exactly that result.
C6_CompletedIsPersisted ==
    \A t \in DOMAIN results :
        (IsTerminal(results[t]) /\ ~io_error) =>
            (t \in DOMAIN LoadResults(file) /\ LoadResults(file)[t] = results[t])

\* C7: no slot is held by two invocations, no held slot is in the available
\* queue, and with one slot an invocation is in its session only when every
\* other invocation that got the slot has put it back.
C7_SlotHeldExclusively ==
    /\ \A t \in Holders : index[t] \in 1..thread_count /\ index[t] \notin Available
    /\ \A t1 \in Holders : \A t2 \in Holders : t1 # t2 => index[t1] # index[t2]
    /\ \A i \in 1..Len(pool_queue) : \A j \in 1..Len(pool_queue) :
          i # j => pool_queue[i] # pool_queue[j]
    /\ thread_count = 1 =>
          \A t1 \in Holders : \A t2 \in TaskIds \ {t1} : gets[t2] = puts[t2]

\* C7 witness: one slot, the first solver has put it back and the second,
\* which had to wait for it, is in its session
C7_Witness ==
    /\ thread_count = 1
    /\ \E t1 \in TaskIds : \E t2 \in Holders :
          /\ t1 # t2
          /\ pc[t1] = "done"
          /\ waits[t2] > 0
          /\ index[t2] = 1

----------------------------------------------------------------------------
(* The order in which waiting solvers get slots *)

\* the step gives invocation b a slot
Granted(b) == gets'[b] > gets[b]

\* the step resolves the future invocation b is suspended on
Woken(b) == pc[b] = "waiting" /\ pc'[b] = "woken"

----------------------------------------------------------------------------
(* Exceptions *)

\* C9: an exception of new_context or new_page never leaves the invocation,
\* and no invocation that got past the proxy parsing ends with its task at
\* the pending sentinel.
C9_ExceptionsStoreFailed ==
    \A t \in TaskIds :
        /\ pc[t] \notin {"raised_context", "raised_page"}
        /\ (pc[t] \in Ended \ {"raised_parse"}) => IsFailed(results[t]) \/ IsSolved(results[t])

\* the shapes the proxy grammar recognizes: with "://" exactly five fields,
\* without it two or more
Recognized(s) ==
    IF contains(s, SchemeSep) THEN Len(split(s, Colon)) = 5
    ELSE Len(split(s, Colon)) >= 2

\* C10: a solver that gets a slot with a proxy string of no recognized shape
\* goes on to new_context with no proxy configured, its task still pending.
C10_MalformedProxyProceeds ==
    [][\A t \in TaskIds :
          (Granted(t) /\ Truthy(proxy[t]) /\ ~Recognized(proxy[t][1])) =>
              /\ pc'[t] = "new_context"
              /\ options'[t] = None
              /\ IsPending(results'[t])
      ]_vars

----------------------------------------------------------------------------
(* The advertised proxy formats, lines 423-430 *)

\* the fields a proxy string is written from
Fields ==
    [scheme : {<<"s">>}, host : {<<"h">>}, port : {<<"8">>},
     username : {<<"u">>}, password : {<<"p">>}]

\* the five formats, in the order of the list of lines 425-429
Formats == 1..5

\* the proxy string of format f written from the fields c
Format(f, c) ==
    CASE f = 1 -> c.host \o <<Colon>> \o c.port
      [] f = 2 -> c.scheme \o SchemeSep \o c.host \o <<Colon>> \o c.port
      [] f = 3 -> c.host \o <<Colon>> \o c.port \o <<Colon>> \o c.scheme
      [] f = 4 -> c.host \o <<Colon>> \o c.port \o <<Colon>> \o c.username
                    \o <<Colon>> \o c.password
      [] f = 5 -> c.scheme \o <<Colon>> \o c.host \o <<Colon>> \o c.port
                    \o <<Colon>> \o c.username \o <<Colon>> \o c.password

\* the proxy option format f names for the fields c: formats 1 and 4 name no
\* scheme (http), formats 1 to 3 no credentials
Named(f, c) ==
    LET scheme == IF f \in {1, 4} THEN Http ELSE c.scheme
        server == scheme \o SchemeSep \o c.host \o <<Colon>> \o c.port
    IN  IF f \in {4, 5}
        THEN [server |-> server, username |-> c.username, password |-> c.password]
        ELSE [server |-> server]

\* host:port:username:password with a colon in the third and in the fourth
\* field's place
P_Colons == <<"h", ":", "8", ":", "u", ":", "a", ":", "b">>

\* the proxy strings of the submissions of ProxySpec
FormatArgs ==
    {None, Some(P_Colons), Some(P_UrlAuth), Some(P_Field)}
        \cup {Some(Format(f, c)) : f \in Formats, c \in Fields}

\* one browser; proxy support on or off, proxies.txt present or missing
ProxyInit == InitWith({1}, BOOLEAN, ProxyFiles)

ProxySubmit ==
    \/ \E proxy_arg \in FormatArgs : process_turnstile(MaxTasks, proxy_arg)
    \/ process_turnstile_invalid

ProxyNext ==
    \/ Startup
    \/ ProxySubmit
    \/ Poll
    \/ \E t \in TaskIds : Solver(t)

ProxySpec == ProxyInit /\ [][ProxyNext]_vars

\* C11: a solver that gets a slot with a proxy string of one of the five
\* advertised formats calls new_context with the proxy option the format
\* names: server scheme://host:port and the credentials.
C11_FormatsConfigured ==
    [][\A t \in TaskIds : \A f \in Formats : \A c \in Fields :
          (Granted(t) /\ proxy[t] = Some(Format(f, c))) =>
              /\ pc'[t] = "new_context"
              /\ options'[t] = Some(Named(f, c))
      ]_vars

\* the fields of the proxy string invocation t was submitted with, when the
\* string has no "://" and four fields or more (line 219)
UserPassFields(t) ==
    IF Truthy(proxy[t]) /\ ~contains(proxy[t][1], SchemeSep)
          /\ Len(split(proxy[t][1], Colon)) >= 4
    THEN split(proxy[t][1], Colon)
    ELSE << >>

Resolved(t) ==
    {ResolveProxy(proxy[t], proxy_support, proxies_txt, choice) :
        choice \in ProxyChoices(proxy[t], proxy_support, proxies_txt)}

\* C13: a solver whose resolved proxy is none or of a recognized shape calls
\* new_context with the proxy option parsed from the resolved proxy: from the
\* submitted string when there is one, else from the line of proxies.txt.
C13_ResolvedProxyConfigured ==
    [][\A t \in TaskIds :
          (/\ Granted(t)
           /\ \A u \in Resolved(t) : u = None \/ Recognized(u[1])) =>
              \E u \in Resolved(t) :
                  /\ pc'[t] = "new_context"
                  /\ options'[t] = ParseProxy(u, u).proxy
      ]_vars

----------------------------------------------------------------------------
(* Submitting and polling *)

\* C14: a submission is answered whatever the state of the pool, with a fresh
\* task id whose stored value is the pending sentinel; polling a pending
\* task returns the sentinel with status 200, and polling an id that is not
\* in the store returns 400.
C14_SubmitNeverWaits ==
    /\ (phase = "serving" /\ issued < MaxTasks) =>
          /\ ENABLED process_turnstile(MaxTasks, None)
          /\ (issued + 1) \notin DOMAIN results
    /\ \A t \in 1..issued : t \in DOMAIN results /\ pc[t] # "none"
    /\ \A t \in DOMAIN results :
          IsPending(results[t]) =>
              GetResultResponse(results, Some(t)) = [body |-> NotReady, status |-> 200]
    /\ \A t \in TaskIds \ DOMAIN results :
          GetResultResponse(results, Some(t)).status = 400
    /\ GetResultResponse(results, None).status = 400

\* C14 witness: a task was submitted while every slot was checked out by a
\* solver that is polling, and it is pending
C14_Witness ==
    /\ phase = "serving"
    /\ pool_queue = << >>
    /\ Cardinality(Holders) = thread_count
    /\ \A h \in Holders : pc[h] = "poll"
    /\ \E t \in TaskIds : pc[t] = "scheduled" /\ IsPending(results[t])

----------------------------------------------------------------------------
(* A write of results.json that fails *)

\* the step stores a result for invocation t and its write of results.json
\* fails: the first IOError happens in it, or the file it leaves is not the
\* dump of the mapping
SaveFailed(t) ==
    /\ writes'[t] > writes[t]
    /\ \/ ~io_error /\ io_error'
       \/ ~IsFailed(results'[t]) /\ file' # JsonDump(results')

\* C15: a store whose write of results.json fails leaves the token stored
\* and goes on to the finally clause, where the context is closed and the
\* slot put back; and no step changes a stored Solved result.
C15_SaveFailureKeepsResult ==
    [][\A t \in TaskIds :
          /\ SaveFailed(t) =>
                /\ IsSolved(results'[t])
                /\ results'[t].value \in Tokens
                /\ pc'[t] = "close"
          /\ (t \in DOMAIN results /\ IsSolved(results[t])) => results'[t] = results[t]
          /\ (pc[t] = "close" /\ pc'[t] = "done") => puts'[t] = puts[t] + 1
      ]_vars

\* C15 witness: the only task is Solved in memory, the write of its result
\* failed, and its solver has put the slot back
C15_Witness ==
    /\ issued = 1
    /\ io_error
    /\ IsSolved(results[1])
    /\ 1 \notin DOMAIN LoadResults(file)
    /\ pc[1] = "done"
    /\ puts[1] = 1

----------------------------------------------------------------------------
(* Startup *)

\* C16: the server starts serving only from startup and with the pool
\* holding the indices 1..N in order; a startup in which a launch failed
\* (fewer than N sessions were put) ends aborted, for good; and a task id is
\* issued only while serving.
C16_StartupAllOrNothing ==
    [][/\ (phase # "serving" /\ phase' = "serving") =>
              /\ phase = "startup"
              /\ pool_queue' = [i \in 1..thread_count |-> i]
       /\ (phase = "startup" /\ phase' # "startup" /\ Len(pool_queue') < thread_count) =>
              phase' = "aborted"
       /\ phase = "aborted" => (phase' = "aborted" /\ issued' = 0)
       /\ issued' # issued => (phase = "serving" /\ phase' = "serving")
      ]_vars

\* C16 witness: the second of two launches failed: one session is in the
\* pool, the server is aborted and no task id was issued
C16_Witness ==
    /\ phase = "aborted"
    /\ thread_count = 2
    /\ pool_queue = <<1>>
    /\ issued = 0

----------------------------------------------------------------------------
(* The polling loop and the fallback *)

\* the step is one of invocation t in its polling loop
PollStep(t) ==
    pc[t] = "poll" /\ (pc'[t] # "poll" \/ attempt'[t] # attempt[t])

\* C17: the polling loop makes at most 20 reads; a read that returns a token
\* stores Solved in the same step, with the time elapsed up to it, and leaves
\* the loop; a read or click that fails stores nothing and the loop goes on
\* to the next attempt, or after the 20th to the fallback.
C17_PollingLoop ==
    [][\A t \in TaskIds :
          /\ attempt'[t] <= MaxAttempts
          /\ PollStep(t) =>
                /\ attempt[t] < MaxAttempts
                /\ IsPending(results[t])
                /\ IF writes'[t] > writes[t]
                   THEN /\ IsSolved(results'[t])
                        /\ results'[t].elapsed_time \in {elapsed[t], elapsed[t] + 1}
                        /\ pc'[t] = "close"
                   ELSE /\ results'[t] = results[t]
                        /\ attempt'[t] > attempt[t]
                        /\ pc'[t] = IF attempt'[t] < MaxAttempts THEN "poll" ELSE "fallback"
      ]_vars

\* C17 witness: nineteen attempts found no token, the task is pending and
\* the loop is about to make its last read
C17_Witness ==
    \E t \in TaskIds :
        /\ pc[t] = "poll"
        /\ attempt[t] = MaxAttempts - 1
        /\ IsPending(results[t])

\* C18: page.evaluate("window.turnstileToken") is called only when the loop
\* has made its 20 attempts and the stored result is still the pending
\* sentinel; its outcome is stored at once: Solved with the token, or
\* Failed with the time elapsed, and the solver goes on to the finally clause.
C18_FallbackAfterLoop ==
    [][\A t \in TaskIds :
          /\ (pc[t] # "fallback" /\ pc'[t] = "fallback") =>
                /\ pc[t] = "poll"
                /\ attempt'[t] = MaxAttempts
                /\ writes'[t] = 0
                /\ IsPending(results'[t])
          /\ (pc[t] = "fallback" /\ pc'[t] # "fallback") =>
                /\ IsPending(results[t])
                /\ writes'[t] = 1
                /\ pc'[t] = "close"
                /\ \/ IsSolved(results'[t]) /\ results'[t].value \in Tokens
                   \/ results'[t] \in {Failed(elapsed[t]), Failed(elapsed[t] + 1)}
      ]_vars

\* C18 witness: the loop has made its 20 attempts, nothing is stored and
\* page.evaluate is being called
C18_Witness ==
    \E t \in TaskIds :
        /\ pc[t] = "fallback"
        /\ attempt[t] = MaxAttempts
        /\ IsPending(results[t])

----------------------------------------------------------------------------
(* The elapsed time of a task the polling loop solves *)

\* C19: the elapsed time the polling loop stores with a token is the time
\* from the first polling attempt to the read that returned the token.
C19_ElapsedSincePolling ==
    [][\A t \in TaskIds :
          (PollStep(t) /\ writes'[t] > writes[t]) =>
              results'[t].elapsed_time = poll_ticks'[t]
      ]_vars

\* C19 as amended: the elapsed time the polling loop stores with a token is
\* the time from start_time, taken when new_page returns, to the read that
\* returned the token: the time of the page load and the time of the polling.
C19_ElapsedSinceStart ==
    [][\A t \in TaskIds :
          (PollStep(t) /\ writes'[t] > writes[t]) =>
              results'[t].elapsed_time = load_ticks'[t] + poll_ticks'[t]
      ]_vars

\* C19 witness: the page load took one tick, the first read returned a token
\* at once, and the elapsed time stored is one tick
C19_Witness ==
    \E t \in TaskIds :
        /\ pc[t] = "close"
        /\ IsSolved(results[t])
        /\ load_ticks[t] = 1
        /\ poll_ticks[t] = 0
        /\ results[t].elapsed_time = 1

----------------------------------------------------------------------------
(* The gate of the fallback *)

\* C20: the test of the stored value against the pending sentinel decides
\* as a flag local to the invocation would: in every state the stored value
\* of a task is the sentinel exactly when its solver has stored nothing, and
\* a solver that leaves its polling loop goes to the fallback exactly when
\* its loop stored nothing.
C20_GateAsLocalFlag ==
    [][\A t \in TaskIds :
          /\ t \in DOMAIN results' => (FallbackGate(results', t) <=> writes'[t] = 0)
          /\ (PollStep(t) /\ pc'[t] # "poll") =>
                /\ pc'[t] \in {"fallback", "close"}
                /\ pc'[t] = "fallback" <=> writes'[t] = 0
      ]_vars

\* C20 witness: a solver whose loop stored nothing is in the fallback while
\* another solver, in its session at the same time, has stored a token
C20_Witness ==
    \E t1 \in TaskIds : \E t2 \in TaskIds :
        /\ t1 # t2
        /\ pc[t1] = "fallback" /\ writes[t1] = 0
        /\ pc[t2] = "close" /\ IsSolved(results[t2])

----------------------------------------------------------------------------
(* The server stopped and started again *)

\* the process ends, its event loop and every solver with it, and is
\* started again: __init__ (lines 91-105) builds an empty pool and sets
\* self.results from results.json; uuid4 never repeats a task id
restart ==
    /\ phase' = "startup"
    /\ results' = LoadResults(file)
    /\ pool_queue' = << >>
    /\ pool_getters' = << >>
    /\ ready' = << >>
    /\ waited' = << >>
    /\ barged' = FALSE
    /\ pc' = [t \in TaskIds |-> "none"]
    /\ proxy' = [t \in TaskIds |-> None]
    /\ index' = [t \in TaskIds |-> 0]
    /\ options' = [t \in TaskIds |-> None]
    /\ elapsed' = [t \in TaskIds |-> 0]
    /\ attempt' = [t \in TaskIds |-> 0]
    /\ gets' = [t \in TaskIds |-> 0]
    /\ puts' = [t \in TaskIds |-> 0]
    /\ writes' = [t \in TaskIds |-> 0]
    /\ waits' = [t \in TaskIds |-> 0]
    /\ ahead' = [t \in TaskIds |-> 0]
    /\ load_ticks' = [t \in TaskIds |-> 0]
    /\ poll_ticks' = [t \in TaskIds |-> 0]
    /\ UNCHANGED <<config, file, io_error, issued>>

RestartNext ==
    \/ Startup
    \/ Submit(MaxTasks)
    \/ Poll
    \/ \E t \in TaskIds : Solver(t)
    \/ restart

RestartSpec == Init /\ [][RestartNext]_vars

----------------------------------------------------------------------------
(* Pending tasks and their solvers *)

\* the invocation of _solve_turnstile for task t is scheduled, suspended in
\* browser_pool.get(), or running between its get() and its end
HasSolver(t) == pc[t] \in {"scheduled", "waiting", "woken"} \cup InSession

\* C21: in every reachable state, a restart that reloads results.json
\* included, every task id whose stored value is the pending sentinel has a
\* solver invocation that is scheduled or in flight for it.
C21_PendingHasSolver ==
    \A t \in DOMAIN results : IsPending(results[t]) => HasSolver(t)

----------------------------------------------------------------------------
(* Each solver's own entry *)

\* the entries of every task but a are what they were
OthersKept(a) ==
    \A t \in DOMAIN results \ {a} : t \in DOMAIN results' /\ results'[t] = results[t]

\* C22: every step of a solver leaves results[t] unchanged for every task id
\* t other than its own, so solvers running at the same time never alter
\* each other's outcome; get_result leaves the whole mapping unchanged.
C22_SolverWritesOwnEntry ==
    [][/\ \A a \in TaskIds : Solver(a) => OthersKept(a)
       /\ Poll => results' = results]_vars

\* two solvers hold a slot each, one has stored its result and the other's
\* entry is still pending
C22_Witness ==
    \E a, b \in DOMAIN results :
        /\ a # b
        /\ pc[a] = "close"
        /\ writes[a] = 1
        /\ IsTerminal(results[a])
        /\ pc[b] \in InSession
        /\ IsPending(results[b])

====
